---------------------------- MODULE Spec2Model ----------------------------
(***************************************************************************)
(* A model of wow.export's map tab (src/src/js/ui/tab-maps.js) and of the  *)
(* FaceCuller / R16Writer helpers (src/unnamed/part_000).                   *)
(*                                                                         *)
(* Spec      the two-pass tile export job, exportSelectedMap, as the       *)
(*           sequence of its synchronous segments between awaits, with the *)
(*           user's cancel request as the only concurrent event.           *)
(* SpecCull  FaceCuller.cullBackFaces, one scanned triangle per step.      *)
(* SpecHeight  R16Writer.setHeightDataFromChunks and write on a scaled-down *)
(*           tile, one chunk and one interpolated row per step.            *)
(* SpecSession  loadMap calls started by the listbox watcher, interleaved   *)
(*           with an export job at its awaits.                             *)
(* SpecObjects  collectGameObjects calls, which may overlap.               *)
(***************************************************************************)
EXTENDS Integers, Sequences, FiniteSets, TLC

VARIABLES
    \* ---- exportSelectedMap -------------------------------------------
    pc,                     \* position of the async function
    mapViewerSelection,     \* core.view.mapViewerSelection (exportTiles aliases it)
    mapsIncludeGameObjects, \* core.view.config.mapsIncludeGameObjects
    mapsExportHeightmap,    \* core.view.config.mapsExportHeightmap
    gameObjectsDB2,         \* module-level index: "null" or "built"
    helper,                 \* the ExportHelper of the job
    exportPaths,            \* core.openLastExportStream(): "stream" | "null" | "closed"
    i,                      \* pass-1 loop index
    tileIndex,              \* index: the tile of the pass-1 iteration in progress
    j,                      \* pass-2 loop index
    r16Writer,              \* the writer of the tile in progress (or NoWriter)
    r16Writers,             \* writers retained for pass 2
    adtExports,             \* [out, index] of every successful tile
    globalMinHeight,
    globalMaxHeight,
    toast,                  \* core.setToast
    \* ---- the world outside the function ------------------------------
    disk,                   \* heightmap files written, in order
    manifest,               \* heightmap_metadata.json files written, in order
    lastExport,             \* lines received by the export-path log
    cacheClears,            \* calls of ADTExporter.clearCache()
    attempts,               \* history: every adt.export() call and how it ended
    writeStarts,            \* history: writers whose write() was called
    \* ---- FaceCuller.cullBackFaces ------------------------------------
    cpc,
    triangleIndices,
    vertices,
    ci,
    culledIndices,
    triangleMap,
    \* ---- R16Writer --------------------------------------------------
    hpc,                    \* position in setHeightDataFromChunks / write
    chunks,                 \* the argument of setHeightDataFromChunks
    hk,                     \* chunkX * chunksPerSide + chunkY of the next chunk
    hy,                     \* y of the next row of the interpolation pass
    heights,                \* local array, cell index = y * fullSize + x
    heightSet,              \* local array
    minHeight,              \* this.minHeight
    maxHeight,              \* this.maxHeight
    heightData,             \* this.heightData
    r16Values,              \* the values handed to buffer.writeUInt16LE, cell by cell
    \* ---- the map session (loadMap) ----------------------------------
    selectedMapID,
    selectedMapDir,
    selectedWDT,
    mapViewerHasWorldModel, \* core.view.mapViewerHasWorldModel
    mapViewerChunkMask,     \* core.view.mapViewerChunkMask
    mapViewerSelectedMap,   \* core.view.mapViewerSelectedMap
    mapViewerSelectedDir,   \* core.view.mapViewerSelectedDir
    loading,                \* the loadMap calls suspended on their descriptor read
    loadCalls,              \* history: the loadMap calls of the run, in call order
    loadResults,            \* history: how each completed call ended, in completion order
    \* ---- collectGameObjects -----------------------------------------
    objTable,               \* the rows of GameObjects.db2
    idTable,                \* the rows of GameObjectDisplayInfo.db2
    objectIndex,            \* gameObjectsDB2 in full: null, or owner -> set of rows
    collects,               \* the collectGameObjects calls: position, arguments, result,
                            \* parse() calls made, and whether a build had completed
    builds,                 \* history: how many times the index was assigned
    \* ---- exportSelectedMapWMO ---------------------------------------
    wpc,                    \* position of the async function
    wmoHelper,              \* helper: the ExportHelper of the world-model job
    fileDataID,             \* local: the file to read (0 before it is resolved)
    wmoCacheClears          \* calls of WMOExporter.clearCache()

jobVars == <<pc, mapViewerSelection, mapsIncludeGameObjects, mapsExportHeightmap,
             gameObjectsDB2, helper, exportPaths, i, tileIndex, j, r16Writer, r16Writers,
             adtExports, globalMinHeight, globalMaxHeight, toast, disk, manifest,
             lastExport, cacheClears, attempts, writeStarts>>

cullVars == <<cpc, triangleIndices, vertices, ci, culledIndices, triangleMap>>

heightVars == <<hpc, chunks, hk, hy, heights, heightSet, minHeight, maxHeight,
                heightData, r16Values>>

sessionVars == <<selectedMapID, selectedMapDir, selectedWDT, mapViewerHasWorldModel,
                 mapViewerChunkMask, mapViewerSelectedMap, mapViewerSelectedDir,
                 loading, loadCalls, loadResults>>

objectVars == <<objTable, idTable, objectIndex, collects, builds>>

wmoVars == <<wpc, wmoHelper, fileDataID, wmoCacheClears>>

vars == <<jobVars, cullVars, heightVars, sessionVars, objectVars, wmoVars>>

\* What an operation of one component leaves alone.
notJob == <<cullVars, heightVars, sessionVars, objectVars, wmoVars>>
notCull == <<jobVars, heightVars, sessionVars, objectVars, wmoVars>>
notHeight == <<jobVars, cullVars, sessionVars, objectVars, wmoVars>>
notObjects == <<jobVars, cullVars, heightVars, sessionVars, wmoVars>>
notWMO == <<jobVars, cullVars, heightVars, sessionVars, objectVars>>

\* The job's state apart from the tile selection, which loadMap clears.
jobLocals == <<pc, mapsIncludeGameObjects, mapsExportHeightmap, gameObjectsDB2, helper,
               exportPaths, i, tileIndex, j, r16Writer, r16Writers, adtExports,
               globalMinHeight, globalMaxHeight, toast, disk, manifest, lastExport,
               cacheClears, attempts, writeStarts>>

-----------------------------------------------------------------------------
(* Bounds and input sets                                                   *)

\* Longest tile selection explored.
MaxTiles == 3

\* Number.POSITIVE_INFINITY / Number.NEGATIVE_INFINITY: integers beyond every
\* height of the model, so that < and > order them as the floats are ordered.
POSITIVE_INFINITY == 1000000
NEGATIVE_INFINITY == -1000000

\* The n-th selected tile index (0..4095, not sorted: 1607, 3214, 725, 2332, ...).
TileAt(n) == (n * 1607) % 4096

\* Selections the user may have made when the export button is clicked.
Selections == { [n \in 1..len |-> TileAt(n)] : len \in 0..MaxTiles }

\* Local (minHeight, maxHeight) a writer can hold after a tile's chunks were
\* loaded into it: finite, min <= max.
LocalExtrema == { <<-3, 2>>, <<0, 5>>, <<1, 1>> }

\* What a writer holds when the exporter failed: untouched, or already
\* populated (here with heights outside every successful tile's range).
FailedExtrema == { <<POSITIVE_INFINITY, NEGATIVE_INFINITY>>, <<-7, 9>> }

NoWriter == [tile |-> -1, minHeight |-> 0, maxHeight |-> 0]

-----------------------------------------------------------------------------
(* ExportHelper, R16Writer as used by the job                              *)

\* new ExportHelper(count, 'tile')
NewExportHelper(count) ==
    [count |-> count, started |-> FALSE, finished |-> FALSE,
     cancelled |-> FALSE, marks |-> << >>]

\* helper.mark(item, state, ...)
Mark(h, item, ok) == [h EXCEPT !.marks = Append(@, [item |-> item, ok |-> ok])]

\* new R16Writer(): minHeight = Infinity, maxHeight = -Infinity
NewR16Writer(tile) ==
    [tile |-> tile, minHeight |-> POSITIVE_INFINITY, maxHeight |-> NEGATIVE_INFINITY]

\* if (min < globalMinHeight) globalMinHeight = min;
FoldMin(g, min) == IF min < g THEN min ELSE g

\* if (max > globalMaxHeight) globalMaxHeight = max;
FoldMax(g, max) == IF max > g THEN max ELSE g

\* The metadata record of heightmap_metadata.json.
Metadata(writers, gmin, gmax) ==
    [tile_count |-> Len(writers), min_height |-> gmin, max_height |-> gmax,
     range |-> gmax - gmin]

\* adtExport.out.type + ':' + adtExport.out.path
ExportPathLine(out) == <<out.type, ":", out.path>>

-----------------------------------------------------------------------------
(* exportSelectedMap                                                       *)

\* The history entry of an adt.export() call, and its completion.
Attempt(pos, tile) ==
    [pos |-> pos, tile |-> tile, result |-> "pending", writer |-> FALSE,
     minHeight |-> POSITIVE_INFINITY, maxHeight |-> NEGATIVE_INFINITY]

Completed(as, res, w) ==
    IF w = NoWriter THEN [as EXCEPT ![Len(as)].result = res]
    ELSE [as EXCEPT ![Len(as)].result = res,
                    ![Len(as)].writer = TRUE,
                    ![Len(as)].minHeight = w.minHeight,
                    ![Len(as)].maxHeight = w.maxHeight]

AwaitPoints == {"awaitGameObjects", "awaitExport", "awaitWrite", "awaitMetadata"}

InitJob ==
    /\ pc = "idle"
    /\ mapViewerSelection \in Selections
    /\ mapsIncludeGameObjects \in BOOLEAN
    /\ mapsExportHeightmap \in BOOLEAN
    /\ gameObjectsDB2 \in {"null", "built"}
    /\ helper = NewExportHelper(0)
    /\ exportPaths = "null"
    /\ i = 0
    /\ tileIndex = 0
    /\ j = 0
    /\ r16Writer = NoWriter
    /\ r16Writers = << >>
    /\ adtExports = << >>
    /\ globalMinHeight = POSITIVE_INFINITY
    /\ globalMaxHeight = NEGATIVE_INFINITY
    /\ toast = "none"
    /\ disk = << >>
    /\ manifest = << >>
    /\ lastExport = << >>
    /\ cacheClears = 0
    /\ attempts = << >>
    /\ writeStarts = << >>

\* Lines 212-237: the click handler up to the first loop.
ExportSelectedMap ==
    /\ pc = "idle"
    /\ IF Len(mapViewerSelection) = 0
       THEN /\ toast' = "error"
            /\ pc' = "returned"
            /\ UNCHANGED <<helper, exportPaths>>
       ELSE /\ helper' = [NewExportHelper(Len(mapViewerSelection)) EXCEPT !.started = TRUE]
            /\ exportPaths' \in {"stream", "null"}
            /\ pc' = "pass1"
            /\ UNCHANGED toast
    /\ UNCHANGED <<mapViewerSelection, mapsIncludeGameObjects, mapsExportHeightmap,
                   gameObjectsDB2, i, j, r16Writer, r16Writers, adtExports,
                   globalMinHeight, globalMaxHeight, disk, manifest, lastExport,
                   cacheClears, attempts, writeStarts>>
    /\ UNCHANGED tileIndex
    /\ UNCHANGED notJob

\* Lines 239-263 and 265-267: the head of a pass-1 iteration, up to the await
\* of collectGameObjects or, without game objects, of adt.export; line 290 when
\* the loop ends.
Pass1Iter ==
    /\ pc = "pass1"
    /\ IF i >= Len(mapViewerSelection) \/ helper.cancelled
       THEN /\ pc' = IF Len(r16Writers) > 0 THEN "pass2" ELSE "exportLog"
            /\ UNCHANGED <<tileIndex, r16Writer, attempts>>
       ELSE IF mapsIncludeGameObjects
       THEN /\ pc' = "awaitGameObjects"
            /\ tileIndex' = mapViewerSelection[i + 1]
            /\ UNCHANGED <<r16Writer, attempts>>
       ELSE /\ pc' = "awaitExport"
            /\ tileIndex' = mapViewerSelection[i + 1]
            /\ r16Writer' = IF mapsExportHeightmap
                            THEN NewR16Writer(mapViewerSelection[i + 1])
                            ELSE NoWriter
            /\ attempts' = Append(attempts, Attempt(i, mapViewerSelection[i + 1]))
    /\ UNCHANGED <<mapViewerSelection, mapsIncludeGameObjects, mapsExportHeightmap,
                   gameObjectsDB2, helper, exportPaths, i, j, r16Writers, adtExports,
                   globalMinHeight, globalMaxHeight, toast, disk, manifest,
                   lastExport, cacheClears, writeStarts>>
    /\ UNCHANGED notJob

\* Lines 122-162 as seen by the job: the query resolves (building the index
\* when it is absent), then lines 265-267 start the export.
GameObjectsResolve ==
    /\ pc = "awaitGameObjects"
    /\ gameObjectsDB2' = "built"
    /\ pc' = "awaitExport"
    /\ r16Writer' = IF mapsExportHeightmap
                    THEN NewR16Writer(tileIndex)
                    ELSE NoWriter
    /\ attempts' = Append(attempts, Attempt(i, tileIndex))
    /\ UNCHANGED <<mapViewerSelection, mapsIncludeGameObjects, mapsExportHeightmap,
                   helper, exportPaths, i, j, r16Writers, adtExports,
                   globalMinHeight, globalMaxHeight, toast, disk, manifest,
                   lastExport, cacheClears, writeStarts>>
    /\ UNCHANGED tileIndex
    /\ UNCHANGED notJob

\* Lines 124-129: a table fails to parse while the index is being built. The
\* await of line 259 is outside the try of line 265: the rejection leaves
\* exportSelectedMap.
GameObjectsReject ==
    /\ pc = "awaitGameObjects"
    /\ gameObjectsDB2 = "null"
    /\ pc' = "thrown"
    /\ UNCHANGED <<mapViewerSelection, mapsIncludeGameObjects, mapsExportHeightmap,
                   gameObjectsDB2, helper, exportPaths, i, j, r16Writer, r16Writers,
                   adtExports, globalMinHeight, globalMaxHeight, toast, disk,
                   manifest, lastExport, cacheClears, attempts, writeStarts>>
    /\ UNCHANGED tileIndex
    /\ UNCHANGED notJob

\* What ADTExporter.export leaves in the writer it was handed.
Populated(w, ext) == [w EXCEPT !.minHeight = ext[1], !.maxHeight = ext[2]]

\* Lines 267-284: adt.export resolved; w is the writer as the exporter left it.
ExportSucceeded(w) ==
    /\ adtExports' = Append(adtExports,
                            [out |-> [type |-> "ADT_OBJ",
                                      path |-> tileIndex],
                             index |-> i])
    /\ IF w # NoWriter
       THEN /\ r16Writers' = Append(r16Writers, w)
            /\ globalMinHeight' = FoldMin(globalMinHeight, w.minHeight)
            /\ globalMaxHeight' = FoldMax(globalMaxHeight, w.maxHeight)
       ELSE UNCHANGED <<r16Writers, globalMinHeight, globalMaxHeight>>
    /\ helper' = Mark(helper, "markPath", TRUE)

\* Mutant of ExportFailed: the heights of the failed tile's writer are folded
\* into the global range before the tile is known to have failed.
ExportFailedFoldsHeights(w) ==
    /\ helper' = Mark(helper, "markPath", FALSE)
    /\ IF w # NoWriter
       THEN /\ globalMinHeight' = FoldMin(globalMinHeight, w.minHeight)
            /\ globalMaxHeight' = FoldMax(globalMaxHeight, w.maxHeight)
       ELSE UNCHANGED <<globalMinHeight, globalMaxHeight>>
    /\ UNCHANGED <<adtExports, r16Writers>>

\* Lines 285-287: adt.export rejected; the writer is dropped.
ExportFailed(w) ==
    /\ helper' = Mark(helper, "markPath", FALSE)
    /\ UNCHANGED <<adtExports, r16Writers, globalMinHeight, globalMaxHeight>>

AdtExportSucceeds ==
    /\ pc = "awaitExport"
    /\ \E w \in IF r16Writer = NoWriter THEN {NoWriter}
                ELSE {Populated(r16Writer, ext) : ext \in LocalExtrema} :
        /\ ExportSucceeded(w)
        /\ attempts' = Completed(attempts, "ok", w)
    /\ r16Writer' = NoWriter
    /\ i' = i + 1
    /\ pc' = "pass1"
    /\ UNCHANGED <<mapViewerSelection, mapsIncludeGameObjects, mapsExportHeightmap,
                   gameObjectsDB2, exportPaths, j, toast, disk, manifest, lastExport,
                   cacheClears, writeStarts>>
    /\ UNCHANGED tileIndex
    /\ UNCHANGED notJob

\* Mutant of AdtExportFails: the loop index is not advanced, so the failed
\* tile is attempted again (while the history is shorter than the list).
AdtExportFailsRetries ==
    /\ pc = "awaitExport"
    /\ \E w \in IF r16Writer = NoWriter THEN {NoWriter}
                ELSE {Populated(r16Writer, ext) : ext \in FailedExtrema} :
        /\ ExportFailed(w)
        /\ attempts' = Completed(attempts, "failed", w)
    /\ r16Writer' = NoWriter
    /\ i' = IF Len(attempts) < Len(mapViewerSelection) THEN i ELSE i + 1
    /\ pc' = "pass1"
    /\ UNCHANGED <<mapViewerSelection, mapsIncludeGameObjects, mapsExportHeightmap,
                   gameObjectsDB2, exportPaths, j, toast, disk, manifest, lastExport,
                   cacheClears, writeStarts>>
    /\ UNCHANGED tileIndex
    /\ UNCHANGED notJob

AdtExportFails ==
    /\ pc = "awaitExport"
    /\ \E w \in IF r16Writer = NoWriter THEN {NoWriter}
                ELSE {Populated(r16Writer, ext) : ext \in FailedExtrema} :
        /\ ExportFailed(w)
        /\ attempts' = Completed(attempts, "failed", w)
    /\ r16Writer' = NoWriter
    /\ i' = i + 1
    /\ pc' = "pass1"
    /\ UNCHANGED <<mapViewerSelection, mapsIncludeGameObjects, mapsExportHeightmap,
                   gameObjectsDB2, exportPaths, j, toast, disk, manifest, lastExport,
                   cacheClears, writeStarts>>
    /\ UNCHANGED tileIndex
    /\ UNCHANGED notJob

\* Lines 290-307 and 314-330: the head of a pass-2 iteration, up to the await
\* of r16Writer.write(), or, when the loop ends, up to the await of the
\* metadata line.
WithGlobalRange(w, gmin, gmax) == [w EXCEPT !.minHeight = gmin, !.maxHeight = gmax]

Pass2Iter ==
    /\ pc = "pass2"
    /\ IF j >= Len(r16Writers) \/ helper.cancelled
       THEN /\ pc' = "awaitMetadata"
            /\ UNCHANGED <<r16Writers, writeStarts>>
       ELSE /\ r16Writers' = [r16Writers EXCEPT ![j + 1] =
                                 WithGlobalRange(@, globalMinHeight, globalMaxHeight)]
            /\ writeStarts' = Append(writeStarts, r16Writers[j + 1].tile)
            /\ pc' = "awaitWrite"
    /\ UNCHANGED <<mapViewerSelection, mapsIncludeGameObjects, mapsExportHeightmap,
                   gameObjectsDB2, helper, exportPaths, i, j, r16Writer, adtExports,
                   globalMinHeight, globalMaxHeight, toast, disk, manifest,
                   lastExport, cacheClears, attempts>>
    /\ UNCHANGED tileIndex
    /\ UNCHANGED notJob

\* R16Writer.write (part_000 264-299) normalises with this.minHeight and
\* this.maxHeight as they are when it runs; the file records them.
WrittenFile(w) == [tile |-> w.tile, minHeight |-> w.minHeight, maxHeight |-> w.maxHeight]

\* Line 307 resolved.
WriteSucceeds ==
    /\ pc = "awaitWrite"
    /\ disk' = Append(disk, WrittenFile(r16Writers[j + 1]))
    /\ j' = j + 1
    /\ pc' = "pass2"
    /\ UNCHANGED <<mapViewerSelection, mapsIncludeGameObjects, mapsExportHeightmap,
                   gameObjectsDB2, helper, exportPaths, i, r16Writer, r16Writers,
                   adtExports, globalMinHeight, globalMaxHeight, toast, manifest,
                   lastExport, cacheClears, attempts, writeStarts>>
    /\ UNCHANGED tileIndex
    /\ UNCHANGED notJob

\* Lines 309-311: the write rejected.
WriteFails ==
    /\ pc = "awaitWrite"
    /\ helper' = Mark(helper, "markPath", FALSE)
    /\ j' = j + 1
    /\ pc' = "pass2"
    /\ UNCHANGED <<mapViewerSelection, mapsIncludeGameObjects, mapsExportHeightmap,
                   gameObjectsDB2, exportPaths, i, r16Writer, r16Writers, adtExports,
                   globalMinHeight, globalMaxHeight, toast, disk, manifest,
                   lastExport, cacheClears, attempts, writeStarts>>
    /\ UNCHANGED tileIndex
    /\ UNCHANGED notJob

\* Lines 330-331: the metadata line was written.
MetadataSucceeds ==
    /\ pc = "awaitMetadata"
    /\ manifest' = Append(manifest, Metadata(r16Writers, globalMinHeight, globalMaxHeight))
    /\ pc' = "exportLog"
    /\ UNCHANGED <<mapViewerSelection, mapsIncludeGameObjects, mapsExportHeightmap,
                   gameObjectsDB2, helper, exportPaths, i, j, r16Writer, r16Writers,
                   adtExports, globalMinHeight, globalMaxHeight, toast, disk,
                   lastExport, cacheClears, attempts, writeStarts>>
    /\ UNCHANGED tileIndex
    /\ UNCHANGED notJob

\* Lines 333-335: creating or writing the metadata file failed.
MetadataFails ==
    /\ pc = "awaitMetadata"
    /\ helper' = Mark(helper, "heightmap metadata", FALSE)
    /\ pc' = "exportLog"
    /\ UNCHANGED <<mapViewerSelection, mapsIncludeGameObjects, mapsExportHeightmap,
                   gameObjectsDB2, exportPaths, i, j, r16Writer, r16Writers, adtExports,
                   globalMinHeight, globalMaxHeight, toast, disk, manifest,
                   lastExport, cacheClears, attempts, writeStarts>>
    /\ UNCHANGED tileIndex
    /\ UNCHANGED notJob

\* Lines 339-341: one line per successful export; exportPaths?. skips the
\* write when there is no stream.
WriteExportPath ==
    /\ pc = "exportLog"
    /\ Len(lastExport) < Len(adtExports)
    /\ exportPaths = "stream"
    /\ lastExport' = Append(lastExport, ExportPathLine(adtExports[Len(lastExport) + 1].out))
    /\ UNCHANGED <<pc, mapViewerSelection, mapsIncludeGameObjects, mapsExportHeightmap,
                   gameObjectsDB2, helper, exportPaths, i, j, r16Writer, r16Writers,
                   adtExports, globalMinHeight, globalMaxHeight, toast, disk, manifest,
                   cacheClears, attempts, writeStarts>>
    /\ UNCHANGED tileIndex
    /\ UNCHANGED notJob

\* Lines 343-348: close the log, clear the cache, finish.
FinishJob ==
    /\ pc = "exportLog"
    /\ exportPaths = "stream" => Len(lastExport) = Len(adtExports)
    /\ exportPaths' = IF exportPaths = "stream" THEN "closed" ELSE exportPaths
    /\ cacheClears' = cacheClears + 1
    /\ helper' = [helper EXCEPT !.finished = TRUE]
    /\ pc' = "done"
    /\ UNCHANGED <<mapViewerSelection, mapsIncludeGameObjects, mapsExportHeightmap,
                   gameObjectsDB2, i, j, r16Writer, r16Writers, adtExports,
                   globalMinHeight, globalMaxHeight, toast, disk, manifest,
                   lastExport, attempts, writeStarts>>
    /\ UNCHANGED tileIndex
    /\ UNCHANGED notJob

\* The user cancels the export (the toast's cancel button): an event handled
\* while the job is suspended at an await.
Cancel ==
    /\ \/ pc \in AwaitPoints
       \/ pc = "exportLog" /\ Len(lastExport) > 0
    /\ ~helper.cancelled
    /\ helper' = [helper EXCEPT !.cancelled = TRUE]
    /\ UNCHANGED <<pc, mapViewerSelection, mapsIncludeGameObjects, mapsExportHeightmap,
                   gameObjectsDB2, exportPaths, i, j, r16Writer, r16Writers, adtExports,
                   globalMinHeight, globalMaxHeight, toast, disk, manifest,
                   lastExport, cacheClears, attempts, writeStarts>>
    /\ UNCHANGED tileIndex
    /\ UNCHANGED notJob

-----------------------------------------------------------------------------
(* FaceCuller.cullBackFaces                                                *)
(*                                                                         *)
(* Vertex coordinates are integers, so a cross product is exact. A unit    *)
(* normal N/|N| is kept as the pair (N, N.N); the comparisons the code     *)
(* makes on the normalised floats (dot product against -0.8, score against *)
(* score) are decided exactly on those pairs.                              *)

\* Longest triangle list explored.
MaxTris == 3

\* Element k of a JavaScript array (0-based).
At(arr, k) == arr[k + 1]

\* Vertex buffers [x, y, z, x, y, z, ...].
\*   BufferAxis : v0..v4 = (0,0,0) (1,0,0) (0,1,0) (2,0,0) (0,0,1)
\*   BufferTilt : v0..v4 = (0,0,0) (1,0,2) (0,1,2) (2,0,4) (0,0,1)
\*   BufferTie  : v0..v4 = (0,0,0) (0,0,1) (-1,-2,0) (0,0,2) (1,0,0)
\*   BufferShort: two vertices and two stray coordinates (length 8)
BufferAxis == <<0,0,0, 1,0,0, 0,1,0, 2,0,0, 0,0,1>>
BufferTilt == <<0,0,0, 1,0,2, 0,1,2, 2,0,4, 0,0,1>>
BufferTie == <<0,0,0, 0,0,1, -1,-2,0, 0,0,2, 1,0,0>>
BufferShort == <<0,0,0, 1,0,0, 0,1>>
VertexBuffers == {BufferAxis, BufferTilt, BufferTie, BufferShort}

\* Index triples a list is drawn from: both windings and a rotation of the
\* triangle 0-1-2, both windings of 0-1-4, the collinear 0-1-3, a repeated
\* index, and triples that reach outside the buffer.
TriangleChoices ==
    { <<0,1,2>>, <<0,2,1>>, <<1,2,0>>, <<2,1,0>>, <<0,1,4>>, <<0,4,1>>,
      <<0,1,3>>, <<0,0,1>>, <<0,1,5>>, <<5,1,0>> }

RECURSIVE Flatten(_)
Flatten(tris) ==
    IF tris = << >> THEN << >> ELSE Head(tris) \o Flatten(Tail(tris))

TriangleLists == UNION { [1..n -> TriangleChoices] : n \in 0..MaxTris }

\* Line 32: an index whose coordinates are not all inside the buffer.
OutOfBounds(idx, verts) == idx * 3 + 2 >= Len(verts)

Malformed(tri, verts) ==
    OutOfBounds(tri[1], verts) \/ OutOfBounds(tri[2], verts) \/ OutOfBounds(tri[3], verts)

\* Lines 39-40: [i0, i1, i2].sort((a, b) => a - b).join('-')
Min2(a, b) == IF a < b THEN a ELSE b
Max2(a, b) == IF a > b THEN a ELSE b
TriangleKey(tri) ==
    LET lo == Min2(tri[1], Min2(tri[2], tri[3]))
        hi == Max2(tri[1], Max2(tri[2], tri[3]))
    IN  <<lo, tri[1] + tri[2] + tri[3] - lo - hi, hi>>

\* Lines 43-45.
Vertex(verts, idx) == <<At(verts, idx * 3), At(verts, idx * 3 + 1), At(verts, idx * 3 + 2)>>

\* Lines 48-56: the cross product of the two edges from vertex 0.
Cross(a, b) ==
    <<a[2] * b[3] - a[3] * b[2], a[3] * b[1] - a[1] * b[3], a[1] * b[2] - a[2] * b[1]>>

Sub(a, b) == <<a[1] - b[1], a[2] - b[2], a[3] - b[3]>>

Dot(a, b) == a[1] * b[1] + a[2] * b[2] + a[3] * b[3]

RawNormal(tri, verts) ==
    LET v0 == Vertex(verts, tri[1])
        v1 == Vertex(verts, tri[2])
        v2 == Vertex(verts, tri[3])
    IN  Cross(Sub(v1, v0), Sub(v2, v0))

\* Lines 59-69: the normalised normal, as the vector and its squared length.
UnitNormal(tri, verts) ==
    LET n == RawNormal(tri, verts) IN [n |-> n, len2 |-> Dot(n, n)]

\* Line 62: normalLength < 1e-6. On integer coordinates the length is 0 or >= 1.
Degenerate(normal) == normal.len2 = 0

\* Lines 76-81: dotProduct < -0.8, where dotProduct = a.n.b.n / sqrt(a.len2 b.len2).
NearlyOpposite(a, b) ==
    LET d == Dot(a.n, b.n) IN d < 0 /\ 25 * d * d > 16 * a.len2 * b.len2

\* Lines 84-85: normal[2] * 4 + normal[1] * 2 + normal[0], times the length.
RawScore(normal) == normal.n[3] * 4 + normal.n[2] * 2 + normal.n[1]

\* Mutant of ScoreGreater: the comparison is reversed.
ScoreGreaterReversed(cur, old) ==
    LET a == RawScore(cur)
        b == RawScore(old)
    IN  IF a >= 0 /\ b >= 0 THEN a * a * old.len2 < b * b * cur.len2
        ELSE IF a < 0 /\ b < 0 THEN a * a * old.len2 > b * b * cur.len2
        ELSE a < 0 /\ b >= 0

\* Line 87: currentScore > existingScore, the scores being RawScore / sqrt(len2).
ScoreGreater(cur, old) ==
    LET a == RawScore(cur)
        b == RawScore(old)
    IN  IF a >= 0 /\ b >= 0 THEN a * a * old.len2 > b * b * cur.len2
        ELSE IF a < 0 /\ b < 0 THEN a * a * old.len2 < b * b * cur.len2
        ELSE a >= 0

\* triangleMap is a JavaScript Map: its entries in insertion order; set() on
\* a key it holds replaces the value in place.
MapHas(map, key) == \E k \in 1..Len(map) : map[k].key = key

MapIndex(map, key) == CHOOSE k \in 1..Len(map) : map[k].key = key

MapGet(map, key) == map[MapIndex(map, key)]

\* Mutant of MapSet: a replaced entry is deleted and inserted again, so it
\* moves to the end of the map.
MapSetReinserts(map, key, tri, normal) ==
    LET e == [key |-> key, indices |-> tri, normal |-> normal]
    IN  Append(SelectSeq(map, LAMBDA x : x.key # key), e)

MapSet(map, key, tri, normal) ==
    LET e == [key |-> key, indices |-> tri, normal |-> normal]
    IN  IF MapHas(map, key) THEN [map EXCEPT ![MapIndex(map, key)] = e]
        ELSE Append(map, e)

\* Mutant of PassThrough: the invalid triangle is skipped and not kept.
PassThroughDropped(st, tri) == st

\* Lines 33-35: culledIndices.push(i0, i1, i2); continue;
PassThrough(st, tri) == [st EXCEPT !.culled = @ \o tri]

\* Lines 27-106: one iteration of the scan, on the state [culled, map].
ScanTriangle(st, tri, verts) ==
    IF Malformed(tri, verts)
    THEN PassThrough(st, tri)
    ELSE LET key == TriangleKey(tri)
             normal == UnitNormal(tri, verts)
         IN  IF Degenerate(normal) THEN st
             ELSE IF MapHas(st.map, key)
             THEN LET existing == MapGet(st.map, key)
                  IN  IF NearlyOpposite(normal, existing.normal)
                      THEN IF ScoreGreater(normal, existing.normal)
                           THEN [st EXCEPT !.map = MapSet(@, key, tri, normal)]
                           ELSE st
                      ELSE [st EXCEPT !.culled = @ \o tri]
             ELSE [st EXCEPT !.map = MapSet(@, key, tri, normal)]

\* Lines 110-112: the candidates that are left, in the map's order.
RECURSIVE MapValues(_)
MapValues(map) ==
    IF map = << >> THEN << >> ELSE Head(map).indices \o MapValues(Tail(map))

\* The triple that starts at offset k of a flat index list.
TripleAt(flat, k) == <<At(flat, k), At(flat, k + 1), At(flat, k + 2)>>

\* cullBackFaces as a function of its arguments (lines 16-115).
RECURSIVE ScanFrom(_, _, _, _)
ScanFrom(st, flat, k, verts) ==
    IF k >= Len(flat) THEN st
    ELSE ScanFrom(ScanTriangle(st, TripleAt(flat, k), verts), flat, k + 3, verts)

CullBackFaces(flat, verts) ==
    IF Len(flat) = 0 THEN flat
    ELSE LET st == ScanFrom([culled |-> << >>, map |-> << >>], flat, 0, verts)
         IN  st.culled \o MapValues(st.map)

InitCullIdle ==
    /\ cpc = "idle"
    /\ triangleIndices = << >>
    /\ vertices = << >>
    /\ ci = 0
    /\ culledIndices = << >>
    /\ triangleMap = << >>

InitCullCall ==
    /\ cpc = "called"
    /\ triangleIndices \in {Flatten(t) : t \in TriangleLists}
    /\ vertices \in VertexBuffers
    /\ ci = 0
    /\ culledIndices = << >>
    /\ triangleMap = << >>

\* Lines 17-23: the call; empty input is returned as it is.
CullEnter ==
    /\ cpc = "called"
    /\ IF Len(triangleIndices) = 0
       THEN /\ cpc' = "returned"
            /\ culledIndices' = triangleIndices
       ELSE /\ cpc' = "scan"
            /\ UNCHANGED culledIndices
    /\ UNCHANGED <<triangleIndices, vertices, ci, triangleMap>>
    /\ UNCHANGED notCull

\* Lines 26-107: one iteration of the loop.
CullScan ==
    /\ cpc = "scan"
    /\ ci < Len(triangleIndices)
    /\ LET st == ScanTriangle([culled |-> culledIndices, map |-> triangleMap],
                              TripleAt(triangleIndices, ci), vertices)
       IN  /\ culledIndices' = st.culled
           /\ triangleMap' = st.map
    /\ ci' = ci + 3
    /\ UNCHANGED <<cpc, triangleIndices, vertices>>
    /\ UNCHANGED notCull

\* Lines 109-114: the loop is over; the candidates are appended.
CullReturn ==
    /\ cpc = "scan"
    /\ ci >= Len(triangleIndices)
    /\ culledIndices' = culledIndices \o MapValues(triangleMap)
    /\ cpc' = "returned"
    /\ UNCHANGED <<triangleIndices, vertices, ci, triangleMap>>
    /\ UNCHANGED notCull

-----------------------------------------------------------------------------
(* R16Writer: setHeightDataFromChunks and write (src/unnamed/part_000)      *)
(*                                                                          *)
(* The tile is scaled down: chunksPerSide chunks per side instead of 16,    *)
(* and rows of HalfChunk + 1 and HalfChunk samples instead of 9 and 8.      *)
(* Heights are integers, multiples of HeightUnit, so that the averages of   *)
(* the interpolation pass are exact.                                        *)

\* Samples of a short row (8 in the source); a long row has one more.
HalfChunk == 1

chunksPerSide == 2
vertsPerChunk == 2 * HalfChunk + 1
fullSize == chunksPerSide * (vertsPerChunk - 1) + 1

HeightUnit == 256
UInt16Max == 65535
NOT_A_NUMBER == -2000000

Cells == 0..(fullSize * fullSize - 1)

\* The <<localX, localY>> of the samples of one row, in column order.
RowSamples(row) ==
    LET isShort == row % 2 # 0
        colCount == IF isShort THEN HalfChunk ELSE HalfChunk + 1
    IN  [col \in 1..colCount |->
            IF isShort THEN <<(col - 1) * 2 + 1, row>> ELSE <<(col - 1) * 2, row>>]

\* The order in which vertexIndex walks the chunk's grid.
RECURSIVE SamplesFrom(_)
SamplesFrom(row) ==
    IF row >= vertsPerChunk THEN << >> ELSE RowSamples(row) \o SamplesFrom(row + 1)

SampleOrder == SamplesFrom(0)

\* Chunk records. A missing entry of the array is NoChunk.
NoChunk == [present |-> FALSE, vertices |-> << >>, position |-> <<0, 0, 0>>]
FlatChunk ==
    [present |-> TRUE, vertices |-> [v \in 1..Len(SampleOrder) |-> 0],
     position |-> <<0, 0, 2 * HeightUnit>>]
RampChunk ==
    [present |-> TRUE, vertices |-> [v \in 1..Len(SampleOrder) |-> ((v - 1) % 4) * HeightUnit],
     position |-> <<0, 0, 0>>]
\* Its first sample, on the corner shared with three neighbours, is the lowest.
DipChunk ==
    [present |-> TRUE,
     vertices |-> [v \in 1..Len(SampleOrder) |-> IF v = 1 THEN -3 * HeightUnit ELSE HeightUnit],
     position |-> <<0, 0, HeightUnit>>]
\* Fewer samples than the grid walk asks for.
ShortChunk ==
    [present |-> TRUE, vertices |-> <<HeightUnit, 3 * HeightUnit>>, position |-> <<0, 0, 0>>]

ChunkChoices == {NoChunk, FlatChunk, RampChunk, DipChunk, ShortChunk}

\* Heights of the other tiles of the job, as a pair <<min, max>>; the first
\* one is a job with no other tile.
OtherTileExtrema ==
    { <<POSITIVE_INFINITY, NEGATIVE_INFINITY>>,
      <<-HeightUnit, HeightUnit>>,
      <<5 * HeightUnit, 5 * HeightUnit>> }

\* Mutant of SetSample: a cell already set is overwritten.
SetSampleOverwrites(st, chunk, chunkX, chunkY, vertexIndex) ==
    LET localX == SampleOrder[vertexIndex + 1][1]
        localY == SampleOrder[vertexIndex + 1][2]
        index == (chunkX * (vertsPerChunk - 1) + localY) * fullSize
                 + chunkY * (vertsPerChunk - 1) + localX
        heightValue == At(chunk.vertices, vertexIndex) + At(chunk.position, 2)
    IN  [heights |-> [st.heights EXCEPT ![index] = heightValue],
         heightSet |-> [st.heightSet EXCEPT ![index] = TRUE],
         minHeight |-> IF heightValue < st.minHeight THEN heightValue ELSE st.minHeight,
         maxHeight |-> IF heightValue > st.maxHeight THEN heightValue ELSE st.maxHeight]

\* Lines 198-210: one sample of a chunk. st holds heights, heightSet,
\* minHeight and maxHeight.
SetSample(st, chunk, chunkX, chunkY, vertexIndex) ==
    LET localX == SampleOrder[vertexIndex + 1][1]
        localY == SampleOrder[vertexIndex + 1][2]
        globalX == chunkY * (vertsPerChunk - 1) + localX
        globalY == chunkX * (vertsPerChunk - 1) + localY
        index == globalY * fullSize + globalX
        heightValue == At(chunk.vertices, vertexIndex) + At(chunk.position, 2)
    IN  IF /\ globalX < fullSize /\ globalY < fullSize
           /\ localX < vertsPerChunk /\ localY < vertsPerChunk
           /\ ~st.heightSet[index]
        THEN [heights |-> [st.heights EXCEPT ![index] = heightValue],
              heightSet |-> [st.heightSet EXCEPT ![index] = TRUE],
              minHeight |-> IF heightValue < st.minHeight THEN heightValue ELSE st.minHeight,
              maxHeight |-> IF heightValue > st.maxHeight THEN heightValue ELSE st.maxHeight]
        ELSE st

\* Lines 174-213: the walk over the samples of one chunk; it ends with the
\* grid walk or with the chunk's vertex array, whichever is shorter.
RECURSIVE SetSamplesFrom(_, _, _, _, _)
SetSamplesFrom(st, chunk, chunkX, chunkY, vertexIndex) ==
    IF vertexIndex >= Len(SampleOrder) \/ vertexIndex >= Len(chunk.vertices) THEN st
    ELSE SetSamplesFrom(SetSample(st, chunk, chunkX, chunkY, vertexIndex),
                        chunk, chunkX, chunkY, vertexIndex + 1)

\* Lines 164-168: a missing chunk is skipped.
SetChunk(st, chunk, chunkX, chunkY) ==
    IF ~chunk.present THEN st ELSE SetSamplesFrom(st, chunk, chunkX, chunkY, 0)

\* Lines 227-234: the two neighbours consulted for an unset cell.
Neighbors(x) ==
    IF x % 2 = 0 THEN << <<0, -1>>, <<0, 1>> >> ELSE << <<-1, 0>>, <<1, 0>> >>

\* Lines 236-246: the neighbours inside the grid that are set.
SetNeighbors(st, x, y) ==
    SelectSeq([n \in 1..2 |-> <<x + Neighbors(x)[n][1], y + Neighbors(x)[n][2]>>],
              LAMBDA c : /\ c[1] >= 0 /\ c[1] < fullSize /\ c[2] >= 0 /\ c[2] < fullSize
                         /\ st.heightSet[c[2] * fullSize + c[1]])

\* Lines 222-253: one cell of the interpolation pass.
InterpolateCell(st, x, y) ==
    LET index == y * fullSize + x
        ns == SetNeighbors(st, x, y)
        totalHeight == IF Len(ns) = 0 THEN 0
                       ELSE IF Len(ns) = 1 THEN st.heights[ns[1][2] * fullSize + ns[1][1]]
                       ELSE st.heights[ns[1][2] * fullSize + ns[1][1]]
                            + st.heights[ns[2][2] * fullSize + ns[2][1]]
    IN  IF st.heightSet[index] \/ Len(ns) = 0 THEN st
        ELSE [st EXCEPT !.heights[index] = totalHeight \div Len(ns),
                        !.heightSet[index] = TRUE]

\* Lines 221-254: one row, left to right.
RECURSIVE InterpolateRowFrom(_, _, _)
InterpolateRowFrom(st, x, y) ==
    IF x >= fullSize THEN st ELSE InterpolateRowFrom(InterpolateCell(st, x, y), x + 1, y)

\* Math.round of num / den, den > 0: the nearest integer, halves upwards.
MathRound(num, den) == (2 * num + den) \div (2 * den)

\* Lines 281-284: r16Value of one cell.
R16Value(h, min, max) ==
    IF min = POSITIVE_INFINITY \/ max = NEGATIVE_INFINITY THEN NOT_A_NUMBER
    ELSE IF max = min
         THEN (IF h = min THEN NOT_A_NUMBER
               ELSE IF h > min THEN POSITIVE_INFINITY ELSE NEGATIVE_INFINITY)
         ELSE MathRound((h - min) * UInt16Max, max - min)

\* buffer.writeUInt16LE throws a RangeError for a value outside 0..65535;
\* NaN is stored as 0.
WriteUInt16Throws(v) == v # NOT_A_NUMBER /\ (v < 0 \/ v > UInt16Max)

HeightState == [heights |-> heights, heightSet |-> heightSet,
                minHeight |-> minHeight, maxHeight |-> maxHeight]

InitHeightIdle ==
    /\ hpc = "idle"
    /\ chunks = << >>
    /\ hk = 0
    /\ hy = 0
    /\ heights = << >>
    /\ heightSet = << >>
    /\ minHeight = POSITIVE_INFINITY
    /\ maxHeight = NEGATIVE_INFINITY
    /\ heightData = << >>
    /\ r16Values = << >>

\* A fresh writer (lines 133-140) about to receive a tile's chunks.
InitHeightCall ==
    /\ hpc = "called"
    /\ chunks \in [0..(chunksPerSide * chunksPerSide - 1) -> ChunkChoices]
    /\ hk = 0
    /\ hy = 0
    /\ heights = << >>
    /\ heightSet = << >>
    /\ minHeight = POSITIVE_INFINITY
    /\ maxHeight = NEGATIVE_INFINITY
    /\ heightData = << >>
    /\ r16Values = << >>

\* Lines 148-160: the arrays are allocated.
SetHeightDataFromChunks ==
    /\ hpc = "called"
    /\ heights' = [c \in Cells |-> 0]
    /\ heightSet' = [c \in Cells |-> FALSE]
    /\ hk' = 0
    /\ hpc' = "chunks"
    /\ UNCHANGED <<chunks, hy, minHeight, maxHeight, heightData, r16Values>>
    /\ UNCHANGED notHeight

\* Lines 162-215: one iteration of the chunk loops.
ChunkStep ==
    /\ hpc = "chunks"
    /\ hk < chunksPerSide * chunksPerSide
    /\ LET chunkX == hk \div chunksPerSide
           chunkY == hk % chunksPerSide
           st == SetChunk(HeightState, chunks[chunkX * chunksPerSide + chunkY], chunkX, chunkY)
       IN  /\ heights' = st.heights
           /\ heightSet' = st.heightSet
           /\ minHeight' = st.minHeight
           /\ maxHeight' = st.maxHeight
    /\ hk' = hk + 1
    /\ hpc' = IF hk + 1 >= chunksPerSide * chunksPerSide THEN "interpolate" ELSE "chunks"
    /\ hy' = 0
    /\ UNCHANGED <<chunks, heightData, r16Values>>
    /\ UNCHANGED notHeight

\* Lines 218-256: one row of the interpolation pass; after the last row the
\* grid becomes this.heightData.
InterpolateRow ==
    /\ hpc = "interpolate"
    /\ hy < fullSize
    /\ LET st == InterpolateRowFrom(HeightState, 0, hy)
       IN  /\ heights' = st.heights
           /\ heightSet' = st.heightSet
           /\ IF hy + 1 >= fullSize
              THEN heightData' = st.heights /\ hpc' = "populated"
              ELSE UNCHANGED <<heightData, hpc>>
    /\ hy' = hy + 1
    /\ UNCHANGED <<chunks, hk, minHeight, maxHeight, r16Values>>
    /\ UNCHANGED notHeight

\* tab-maps.js 273-279 and 303-304: the job folds the writer's extrema and
\* those of the other tiles into the global range, and imposes it.
ImposeGlobalRange ==
    /\ hpc = "populated"
    /\ \E other \in OtherTileExtrema :
          /\ minHeight' = FoldMin(FoldMin(POSITIVE_INFINITY, minHeight), other[1])
          /\ maxHeight' = FoldMax(FoldMax(NEGATIVE_INFINITY, maxHeight), other[2])
    /\ hpc' = "ranged"
    /\ UNCHANGED <<chunks, hk, hy, heights, heightSet, heightData, r16Values>>
    /\ UNCHANGED notHeight

\* Lines 274-287: the cells are normalised and stored.
WriteHeights ==
    /\ hpc = "ranged"
    /\ r16Values' = [c \in Cells |-> R16Value(heightData[c], minHeight, maxHeight)]
    /\ hpc' = IF \E c \in Cells : WriteUInt16Throws(r16Values'[c]) THEN "writeThrown" ELSE "written"
    /\ UNCHANGED <<chunks, hk, hy, heights, heightSet, minHeight, maxHeight, heightData>>
    /\ UNCHANGED notHeight

-----------------------------------------------------------------------------
(* The map session: loadMap and the selectionMaps watcher (tab-maps.js)     *)

\* Most loadMap calls explored.
MaxLoads == 2

\* The entries of the map listbox, as parseMapEntry returns them.
MapEntries == { [id |-> 1, dir |-> "Azeroth"], [id |-> 2, dir |-> "kalimdor"] }

\* String.prototype.toLowerCase on the directories above.
ToLowerCase(dir) == IF dir = "Azeroth" THEN "azeroth" ELSE dir

\* selectedMapID before the first selection (undefined).
NoMap == 0

\* selectedWDT when it is undefined or null.
NoWDT == [map |-> NoMap, loaded |-> FALSE, worldModelPlacement |-> FALSE]

\* new WDTLoader(data) after load(): loaded tells whether load() returned; a
\* load() that threw may or may not have reached the placement chunk.
WDT(mapID, loaded, placement) ==
    [map |-> mapID, loaded |-> loaded, worldModelPlacement |-> placement]

\* core.view.mapViewerChunkMask: null (every tile enabled), or wdt.tiles.
NoMask == [map |-> NoMap]
TilesOfWDT(wdt) == [map |-> wdt.map]

\* Code of another handler runs only while the job is suspended or not running.
JobSuspended == pc \in AwaitPoints \cup {"idle", "returned", "done", "thrown"}

InitSession ==
    /\ selectedMapID = NoMap
    /\ selectedMapDir = ""
    /\ selectedWDT = NoWDT
    /\ mapViewerHasWorldModel = FALSE
    /\ mapViewerChunkMask = NoMask
    /\ mapViewerSelectedMap = NoMap
    /\ mapViewerSelectedDir = ""
    /\ loading = << >>
    /\ loadCalls = << >>
    /\ loadResults = << >>

\* A session in which the first map of the listbox was loaded (it has no
\* world model) and the user then selected the tiles of InitJob.
InitLoaded ==
    /\ selectedMapID = 1
    /\ selectedMapDir = "azeroth"
    /\ selectedWDT = WDT(1, TRUE, FALSE)
    /\ mapViewerHasWorldModel = FALSE
    /\ mapViewerChunkMask = TilesOfWDT(WDT(1, TRUE, FALSE))
    /\ mapViewerSelectedMap = 1
    /\ mapViewerSelectedDir = "Azeroth"
    /\ loading = << >>
    /\ loadCalls = << >>
    /\ loadResults = << >>

\* Lines 389-398 and 36-50: the user picks a map in the listbox; the watcher
\* calls loadMap, which runs up to its await of the descriptor read. The
\* watcher does nothing while the view is busy; here, while a job runs.
SelectMap ==
    /\ pc \in {"idle", "returned", "done"}
    /\ wpc \in {"idle", "returned", "done"}
    /\ Len(loadCalls) < MaxLoads
    /\ \E map \in MapEntries :
          /\ selectedMapID # map.id
          /\ selectedMapID' = map.id
          /\ selectedMapDir' = ToLowerCase(map.dir)
          /\ loading' = Append(loading, [call |-> Len(loadCalls) + 1, mapID |-> map.id,
                                         mapDir |-> map.dir])
          /\ loadCalls' = Append(loadCalls, [mapID |-> map.id, mapDir |-> map.dir,
                                             overlaps |-> loading # << >>])
    /\ selectedWDT' = NoWDT
    /\ mapViewerHasWorldModel' = FALSE
    /\ UNCHANGED <<mapViewerChunkMask, mapViewerSelectedMap, mapViewerSelectedDir, loadResults>>
    /\ UNCHANGED <<jobVars, cullVars, heightVars, objectVars, wmoVars>>

Without(seq, k) == [n \in 1..(Len(seq) - 1) |-> IF n < k THEN seq[n] ELSE seq[n + 1]]

\* Lines 65-74: the end of loadMap, for the suspended call number k.
LoadMapTail(k, result) ==
    /\ mapViewerSelection' = << >>
    /\ mapViewerSelectedMap' = loading[k].mapID
    /\ mapViewerSelectedDir' = loading[k].mapDir
    /\ loading' = Without(loading, k)
    /\ loadResults' = Append(loadResults, [call |-> loading[k].call, result |-> result])
    /\ UNCHANGED <<selectedMapID, selectedMapDir, loadCalls>>
    /\ UNCHANGED <<jobLocals, cullVars, heightVars, objectVars, wmoVars>>

\* Lines 50-58: the read resolved and load() returned.
LoadMapLoaded ==
    /\ JobSuspended
    /\ \E k \in 1..Len(loading), placement \in BOOLEAN :
          LET wdt == WDT(loading[k].mapID, TRUE, placement)
          IN  /\ selectedWDT' = wdt
              /\ mapViewerHasWorldModel' = IF wdt.worldModelPlacement THEN TRUE
                                           ELSE mapViewerHasWorldModel
              /\ mapViewerChunkMask' = TilesOfWDT(wdt)
              /\ LoadMapTail(k, "loaded")

\* Lines 50 and 59-63: the read rejected.
LoadMapReadFails ==
    /\ JobSuspended
    /\ \E k \in 1..Len(loading) :
          /\ mapViewerChunkMask' = NoMask
          /\ UNCHANGED <<selectedWDT, mapViewerHasWorldModel>>
          /\ LoadMapTail(k, "readFailed")

\* Lines 50-52 and 59-63: the read resolved, the loader was assigned to
\* selectedWDT, and load() threw.
LoadMapParseFails ==
    /\ JobSuspended
    /\ \E k \in 1..Len(loading), placement \in BOOLEAN :
          /\ selectedWDT' = WDT(loading[k].mapID, FALSE, placement)
          /\ mapViewerChunkMask' = NoMask
          /\ UNCHANGED mapViewerHasWorldModel
          /\ LoadMapTail(k, "parseFailed")

-----------------------------------------------------------------------------
(* collectGameObjects (tab-maps.js 122-162)                                 *)
(*                                                                          *)
(* exportSelectedMap awaits every call it makes, but nothing in the module  *)
(* keeps a second export from starting while one is suspended: calls may    *)
(* overlap.                                                                 *)

\* Most rows of GameObjects.db2, and most calls, explored.
MaxRows == 2
MaxCalls == 2

\* Rows a GameObjects.db2 table may hold: owner map 1 or 2, a display
\* identifier, and whether the position lies inside the queried tile.
RowChoices ==
    { [ID |-> 4 * (o - 1) + 2 * (d - 10) + (IF inside THEN 1 ELSE 0) + 1,
       OwnerID |-> o, DisplayID |-> d, inTile |-> inside, FileDataID |-> 0] :
        o \in {1, 2}, d \in {10, 11}, inside \in BOOLEAN }

\* Tables of GameObjectDisplayInfo.db2: display 11 is never listed.
DisplayTables == { {}, {[ID |-> 10, FileDataID |-> 100]} }

\* The filter argument: the tile-bounds test of line 259, or none.
Filters == {"inTile", "undefined"}
Filter(filter, obj) == filter = "inTile" /\ obj.inTile

\* gameObjectsDB2 === null
NullIndex == [isNull |-> TRUE, map |-> << >>]

\* idTable.getRow(id): the set holding the row, empty for null.
GetRow(table, id) == { row \in table : row.ID = id }

\* Lines 133-149: the rows with a display row, each with its FileDataID,
\* grouped by owner.
BuildIndex(rows, displays) ==
    LET resolved == { [row EXCEPT !.FileDataID =
                          (CHOOSE fidRow \in GetRow(displays, row.DisplayID) : TRUE).FileDataID] :
                      row \in { r \in rows : GetRow(displays, r.DisplayID) # {} } }
    IN  [isNull |-> FALSE,
         map |-> [owner \in { r.OwnerID : r \in resolved } |->
                     { r \in resolved : r.OwnerID = owner }]]

\* Mutant of Query: the filter is not applied.
QueryUnfiltered(gameObjects, mapID, filter) ==
    IF mapID \in DOMAIN gameObjects.map THEN gameObjects.map[mapID] ELSE {}

\* Lines 152-161: the objects of mapID that pass the filter.
Query(gameObjects, mapID, filter) ==
    IF mapID \in DOMAIN gameObjects.map
    THEN { obj \in gameObjects.map[mapID] : filter # "undefined" /\ Filter(filter, obj) }
    ELSE {}

NoCall == [at |-> "none", mapID |-> 0, filter |-> "undefined", result |-> {},
           parses |-> 0, afterBuild |-> FALSE]

InitObjectsIdle ==
    /\ objTable = {}
    /\ idTable = {}
    /\ objectIndex = NullIndex
    /\ collects = << >>
    /\ builds = 0

InitObjects ==
    /\ objTable \in { t \in SUBSET RowChoices : Cardinality(t) <= MaxRows }
    /\ idTable \in DisplayTables
    /\ objectIndex = NullIndex
    /\ collects = << >>
    /\ builds = 0

\* Lines 122-127 or 122-161: a call starts; it answers from the index when
\* there is one, else it awaits objTable.parse().
CollectGameObjects ==
    /\ Len(collects) < MaxCalls
    /\ \E mapID \in {1, 2}, filter \in Filters :
          collects' = Append(collects,
              IF objectIndex.isNull
              THEN [NoCall EXCEPT !.at = "parseObj", !.mapID = mapID, !.filter = filter,
                                  !.parses = 1, !.afterBuild = builds > 0]
              ELSE [NoCall EXCEPT !.at = "returned", !.mapID = mapID, !.filter = filter,
                                  !.result = Query(objectIndex, mapID, filter),
                                  !.afterBuild = builds > 0])
    /\ UNCHANGED <<objTable, idTable, objectIndex, builds>>
    /\ UNCHANGED notObjects

\* Lines 127-130: objTable.parse() resolved; idTable.parse() is awaited.
ObjTableParsed ==
    /\ \E c \in 1..Len(collects) :
          /\ collects[c].at = "parseObj"
          /\ collects' = [collects EXCEPT ![c].at = "parseId", ![c].parses = @ + 1]
    /\ UNCHANGED <<objTable, idTable, objectIndex, builds>>
    /\ UNCHANGED notObjects

\* Lines 127 or 130: a parse() rejected, and so does the call.
ParseRejects ==
    /\ \E c \in 1..Len(collects) :
          /\ collects[c].at \in {"parseObj", "parseId"}
          /\ collects' = [collects EXCEPT ![c].at = "rejected"]
    /\ UNCHANGED <<objTable, idTable, objectIndex, builds>>
    /\ UNCHANGED notObjects

\* Lines 130-161: idTable.parse() resolved; the index is built and assigned,
\* and the call answers from it.
IdTableParsed ==
    /\ \E c \in 1..Len(collects) :
          /\ collects[c].at = "parseId"
          /\ objectIndex' = BuildIndex(objTable, idTable)
          /\ collects' = [collects EXCEPT
                             ![c].at = "returned",
                             ![c].result = Query(objectIndex', collects[c].mapID,
                                                 collects[c].filter)]
    /\ builds' = builds + 1
    /\ UNCHANGED <<objTable, idTable>>
    /\ UNCHANGED notObjects

-----------------------------------------------------------------------------
(* exportSelectedMapWMO (tab-maps.js 164-210)                               *)

\* The file IDs explored: 0 is what listfile.getByFilename returns for an
\* unknown name and what a placement without a model carries.
FileDataIDs == {0, 1}

WMOAwaitPoints == {"awaitGetFile", "awaitExportAsOBJ"}

InitWMOIdle ==
    /\ wpc = "idle"
    /\ wmoHelper = NewExportHelper(0)
    /\ fileDataID = 0
    /\ wmoCacheClears = 0

\* Lines 203-209: the catch block, then the statements after the try.
WMOCatch(h) == Mark(h, "world model", FALSE)

WMOEnd(h) ==
    /\ wmoCacheClears' = wmoCacheClears + 1
    /\ wmoHelper' = [h EXCEPT !.finished = TRUE]
    /\ wpc' = "done"

\* Lines 165-192: the helper is created and started; the checks of the
\* descriptor throw into the catch block, otherwise the function suspends on
\* the read of the model file. id is listfile.getByFilename(fileName) when
\* the descriptor names its model, placement.id when it does not.
ExportSelectedMapWMO ==
    /\ wpc = "idle"
    /\ pc = "idle"
    /\ LET h == [NewExportHelper(1) EXCEPT !.started = TRUE]
       IN  IF ~selectedWDT.worldModelPlacement
           THEN /\ WMOEnd(WMOCatch(h))
                /\ UNCHANGED fileDataID
           ELSE \E worldModel \in BOOLEAN, id \in FileDataIDs :
                   IF id = 0
                   THEN /\ WMOEnd(WMOCatch(h))
                        /\ UNCHANGED fileDataID
                   ELSE /\ fileDataID' = id
                        /\ wmoHelper' = h
                        /\ wpc' = "awaitGetFile"
                        /\ UNCHANGED wmoCacheClears
    /\ UNCHANGED notWMO

\* Lines 192-196: the read resolved; the exporter is built and the function
\* suspends on exportAsOBJ.
GetFileResolves ==
    /\ wpc = "awaitGetFile"
    /\ wpc' = "awaitExportAsOBJ"
    /\ UNCHANGED <<wmoHelper, fileDataID, wmoCacheClears>>
    /\ UNCHANGED notWMO

\* Lines 192, 203-209: the read rejected.
GetFileRejects ==
    /\ wpc = "awaitGetFile"
    /\ WMOEnd(WMOCatch(wmoHelper))
    /\ UNCHANGED fileDataID
    /\ UNCHANGED notWMO

\* Lines 196-209: exportAsOBJ resolved. A cancelled job returns from inside
\* the try; any other marks the model and runs the statements after it.
ExportAsOBJResolves ==
    /\ wpc = "awaitExportAsOBJ"
    /\ IF wmoHelper.cancelled
       THEN /\ wpc' = "returned"
            /\ UNCHANGED <<wmoHelper, wmoCacheClears>>
       ELSE WMOEnd(Mark(wmoHelper, "fileName", TRUE))
    /\ UNCHANGED fileDataID
    /\ UNCHANGED notWMO

\* Lines 196, 203-209: exportAsOBJ rejected.
ExportAsOBJRejects ==
    /\ wpc = "awaitExportAsOBJ"
    /\ WMOEnd(WMOCatch(wmoHelper))
    /\ UNCHANGED fileDataID
    /\ UNCHANGED notWMO

\* The user cancels the world-model export while it is suspended.
CancelWMO ==
    /\ wpc \in WMOAwaitPoints
    /\ ~wmoHelper.cancelled
    /\ wmoHelper' = [wmoHelper EXCEPT !.cancelled = TRUE]
    /\ UNCHANGED <<wpc, fileDataID, wmoCacheClears>>
    /\ UNCHANGED notWMO

Init ==
    InitJob /\ InitCullIdle /\ InitHeightIdle /\ InitSession /\ InitObjectsIdle /\ InitWMOIdle

Next ==
    \/ ExportSelectedMap
    \/ Pass1Iter
    \/ GameObjectsResolve
    \/ GameObjectsReject
    \/ AdtExportSucceeds
    \/ AdtExportFails
    \/ Pass2Iter
    \/ WriteSucceeds
    \/ WriteFails
    \/ MetadataSucceeds
    \/ MetadataFails
    \/ WriteExportPath
    \/ FinishJob
    \/ Cancel

Spec == Init /\ [][Next]_vars

-----------------------------------------------------------------------------
(* Properties of exportSelectedMap (checked under Spec)                    *)

SetMin(S) == CHOOSE x \in S : \A y \in S : x <= y
SetMax(S) == CHOOSE x \in S : \A y \in S : x >= y

IsPrefix(a, b) == Len(a) <= Len(b) /\ SubSeq(b, 1, Len(a)) = a

OkAttempts == SelectSeq(attempts, LAMBDA a : a.result = "ok")
OkWriters == SelectSeq(attempts, LAMBDA a : a.result = "ok" /\ a.writer)
FailedAttempts == SelectSeq(attempts, LAMBDA a : a.result = "failed")

RECURSIVE TilesOf(_)
TilesOf(as) == IF as = << >> THEN << >> ELSE <<Head(as).tile>> \o TilesOf(Tail(as))

Pass1Ended == pc \in {"pass2", "awaitWrite", "awaitMetadata", "exportLog", "done"}
Pass2Ended == pc \in {"awaitMetadata", "exportLog", "done"}
JobEnded == pc \in {"done", "thrown"}

\* The first cancellation check of pass 2 found the job cancelled: writers were
\* retained, the loop is over and its index never moved.
CancelledBeforePass2 == Pass2Ended /\ Len(r16Writers) > 0 /\ j = 0 /\ helper.cancelled

\* C1: when cancellation is set after pass 1 and before the first pass-2
\* iteration, no heightmap file is written and no manifest is emitted, even
\* when pass 1 retained writers.
C1_CancelBeforePass2NoOutput ==
    CancelledBeforePass2 => disk = << >> /\ manifest = << >>

\* C2: a failure while processing a tile in pass 1 (game-object query or
\* exporter) is recorded as a failed outcome and never aborts the batch:
\* nothing propagates out of exportSelectedMap, and absent cancellation every
\* tile of the list is attempted.
C2_TileFailureNeverAborts ==
    /\ pc # "thrown"
    /\ Len(FailedAttempts) <= Len(SelectSeq(helper.marks, LAMBDA m : ~m.ok))
    /\ (JobEnded /\ ~helper.cancelled) => Len(attempts) = Len(mapViewerSelection)

\* C3: every heightmap written carries the job-wide extrema, which are the
\* minimum of the local minima and the maximum of the local maxima of the
\* writers of the tiles whose export succeeded (a failed tile's heights never
\* contribute), and nothing is written before pass 1 has ended.
C3_GlobalExtrema ==
    /\ globalMinHeight =
         SetMin({POSITIVE_INFINITY} \cup
                {OkWriters[k].minHeight : k \in 1..Len(OkWriters)})
    /\ globalMaxHeight =
         SetMax({NEGATIVE_INFINITY} \cup
                {OkWriters[k].maxHeight : k \in 1..Len(OkWriters)})
    /\ \A k \in 1..Len(disk) :
         /\ disk[k].minHeight = globalMinHeight
         /\ disk[k].maxHeight = globalMaxHeight
    /\ (disk # << >> \/ writeStarts # << >>) => Pass1Ended

\* Tiles 1 and 3 succeeded with different local ranges, tile 2 failed after its
\* writer was populated, and both heightmaps were written.
C3_Witness ==
    /\ Len(attempts) = 3
    /\ attempts[1].result = "ok" /\ attempts[1].minHeight = -3
    /\ attempts[2].result = "failed" /\ attempts[2].minHeight = -7
    /\ attempts[3].result = "ok" /\ attempts[3].maxHeight = 5
    /\ Len(disk) = 2
    /\ globalMinHeight = -3 /\ globalMaxHeight = 5

\* C4: whenever the manifest is emitted, its tile_count is the number of
\* heightmap files written in pass 2 and its height range is the global
\* extrema with range = max - min.
C4_ManifestCountsWrittenFiles ==
    \A k \in 1..Len(manifest) :
        /\ manifest[k].tile_count = Len(disk)
        /\ manifest[k].min_height = globalMinHeight
        /\ manifest[k].max_height = globalMaxHeight
        /\ manifest[k].range = globalMaxHeight - globalMinHeight

RECURSIVE LinesOf(_)
LinesOf(as) ==
    IF as = << >> THEN << >>
    ELSE <<(<<"ADT_OBJ", ":", Head(as).tile>>)>> \o LinesOf(Tail(as))

\* C5: when a job ends, the export-path log has received exactly one
\* "<type>:<path>" line per tile whose export succeeded, in pass-1 order, none
\* for any other tile, and the log is closed.
C5_LogLinePerSuccessfulTile ==
    (JobEnded /\ exportPaths # "null") =>
        /\ lastExport = LinesOf(OkAttempts)
        /\ exportPaths = "closed"

\* C6: every started job clears the exporter's cache exactly once, after its
\* last tile export and heightmap write, whatever the outcome.
C6_CacheClearedOncePerJob ==
    /\ cacheClears <= 1
    /\ cacheClears = 1 => pc = "done"
    /\ JobEnded => cacheClears = 1

\* C7: per-tile exports start in list order, each list position at most once;
\* pass-2 writes start in the order in which their tiles succeeded, each writer
\* at most once, and only after every pass-1 export has ended.
C7_OrderNoRetry ==
    /\ \A k \in 1..Len(attempts) :
         /\ attempts[k].pos = k - 1
         /\ attempts[k].tile = mapViewerSelection[k]
    /\ Len(attempts) <= Len(mapViewerSelection)
    /\ IsPrefix(writeStarts, TilesOf(OkWriters))
    /\ writeStarts # << >> =>
         /\ Pass1Ended
         /\ \A k \in 1..Len(attempts) : attempts[k].result # "pending"

\* The first tile failed, the next two succeeded, and both writers of the
\* successful tiles had their write started, in that order.
C7_Witness ==
    /\ Len(attempts) = 3
    /\ attempts[1].result = "failed"
    /\ attempts[2].result = "ok"
    /\ attempts[3].result = "ok"
    /\ writeStarts = <<mapViewerSelection[2], mapViewerSelection[3]>>

-----------------------------------------------------------------------------
(* Properties of cullBackFaces (checked under SpecCull)                    *)

\* A flat index list as its sequence of triples.
Triples(flat) == [k \in 1..(Len(flat) \div 3) |-> TripleAt(flat, 3 * (k - 1))]

InputTriples == Triples(triangleIndices)
OutputTriples == Triples(culledIndices)

RECURSIVE FlatSelect(_, _)
FlatSelect(tris, keep) ==
    IF tris = << >> THEN << >>
    ELSE (IF keep[1] THEN Head(tris) ELSE << >>)
         \o FlatSelect(Tail(tris), Tail(keep))

IsMalformed(tri) == Malformed(tri, vertices)
ZeroArea(tri) == ~IsMalformed(tri) /\ RawNormal(tri, vertices) = <<0, 0, 0>>

\* The score nz*4 + ny*2 + nx of a triangle, up to the length of its normal
\* (the same for all triangles on one vertex set).
Score(tri) ==
    LET n == RawNormal(tri, vertices) IN n[3] * 4 + n[2] * 2 + n[1]

Opposite(a, b) == Dot(RawNormal(a, vertices), RawNormal(b, vertices)) < 0

NoBadTriangles ==
    \A k \in 1..Len(InputTriples) :
        ~IsMalformed(InputTriples[k]) /\ ~ZeroArea(InputTriples[k])

\* Pairs of input positions on the same vertex set.
SharingPairs ==
    { pq \in (1..Len(InputTriples)) \X (1..Len(InputTriples)) :
        /\ pq[1] < pq[2]
        /\ TriangleKey(InputTriples[pq[1]]) = TriangleKey(InputTriples[pq[2]]) }

WithKey(tris, key) == SelectSeq(tris, LAMBDA t : TriangleKey(t) = key)

\* The input has no bad triangle and exactly two triangles share a vertex
\* set, with opposite normals.
OneBackFacePair ==
    /\ NoBadTriangles
    /\ Cardinality(SharingPairs) = 1
    /\ \A pq \in SharingPairs : Opposite(InputTriples[pq[1]], InputTriples[pq[2]])

\* C8: of exactly two triangles on one vertex set with opposite normals (and
\* no degenerate or malformed triangle in the list), exactly one is emitted:
\* the one with the greater score nz*4 + ny*2 + nx, whichever comes first.
C8_PairKeepsGreaterScore ==
    (cpc = "returned" /\ OneBackFacePair) =>
        \A pq \in SharingPairs :
            LET a == InputTriples[pq[1]]
                b == InputTriples[pq[2]]
                out == WithKey(OutputTriples, TriangleKey(a))
            IN  /\ Len(out) = 1
                /\ out[1] \in {a, b}
                /\ Score(out[1]) >= Score(a)
                /\ Score(out[1]) >= Score(b)
                /\ Len(OutputTriples) = Len(InputTriples) - 1

\* A pair whose second triangle has the greater score (the candidate was
\* replaced), next to a triangle on another vertex set.
C8_Witness ==
    /\ cpc = "returned"
    /\ OneBackFacePair
    /\ Len(InputTriples) = 3
    /\ \E pq \in SharingPairs :
         /\ Score(InputTriples[pq[2]]) > Score(InputTriples[pq[1]])
         /\ InputTriples[pq[2]] \in {OutputTriples[k] : k \in 1..Len(OutputTriples)}

\* C9: for every input without malformed triangles, the output never holds
\* two triangles on the same vertex set with opposite normals.
C9_NoOppositePairInOutput ==
    (cpc = "returned" /\ \A k \in 1..Len(InputTriples) : ~IsMalformed(InputTriples[k])) =>
        \A p, q \in 1..Len(OutputTriples) :
            (p < q /\ TriangleKey(OutputTriples[p]) = TriangleKey(OutputTriples[q]))
                => ~Opposite(OutputTriples[p], OutputTriples[q])

\* C10: a malformed triple is emitted exactly once and unchanged, is never a
\* candidate, and does not change what happens to any other triangle; a
\* well-formed triangle of zero area is neither emitted nor a candidate.
C10_MalformedPassThrough ==
    /\ \A k \in 1..Len(triangleMap) :
         ~IsMalformed(triangleMap[k].indices) /\ ~ZeroArea(triangleMap[k].indices)
    /\ cpc = "returned" =>
         /\ FlatSelect(OutputTriples, [k \in 1..Len(OutputTriples) |->
                                          IsMalformed(OutputTriples[k])])
              = FlatSelect(InputTriples, [k \in 1..Len(InputTriples) |->
                                             IsMalformed(InputTriples[k])])
         /\ FlatSelect(OutputTriples, [k \in 1..Len(OutputTriples) |->
                                          ~IsMalformed(OutputTriples[k])])
              = CullBackFaces(FlatSelect(InputTriples,
                                         [k \in 1..Len(InputTriples) |->
                                             ~IsMalformed(InputTriples[k])]),
                              vertices)
         /\ \A k \in 1..Len(OutputTriples) : ~ZeroArea(OutputTriples[k])

\* A malformed triple stands between the two triangles of a back-face pair:
\* it is emitted, and the pair is still resolved to one triangle.
C10_Witness ==
    /\ cpc = "returned"
    /\ Len(InputTriples) = 3
    /\ ~IsMalformed(InputTriples[1]) /\ ~ZeroArea(InputTriples[1])
    /\ IsMalformed(InputTriples[2])
    /\ ~IsMalformed(InputTriples[3])
    /\ TriangleKey(InputTriples[3]) = TriangleKey(InputTriples[1])
    /\ Opposite(InputTriples[1], InputTriples[3])
    /\ Len(OutputTriples) = 2

\* The input positions whose triangle can become a candidate.
Trackable(k) == ~IsMalformed(InputTriples[k]) /\ ~ZeroArea(InputTriples[k])

\* The input positions before k with the vertex set of position k.
EarlierSame(k) ==
    { m \in 1..(k - 1) :
        Trackable(m) /\ TriangleKey(InputTriples[m]) = TriangleKey(InputTriples[k]) }

\* The position of the candidate of k's vertex set when the scan reaches k:
\* the first triangle on it, unless a later one before k faces the other way
\* with a strictly greater score; then the first such one.
CandidateBefore(k) ==
    LET first == SetMin(EarlierSame(k))
        better == { m \in EarlierSame(k) :
                      /\ Opposite(InputTriples[m], InputTriples[first])
                      /\ Score(InputTriples[m]) > Score(InputTriples[first]) }
    IN  IF better = {} THEN first ELSE SetMin(better)

\* Position k is emitted during the scan: a malformed triple, or a triangle
\* that does not face away from the candidate of its vertex set.
Immediate(k) ==
    \/ IsMalformed(InputTriples[k])
    \/ /\ Trackable(k)
       /\ EarlierSame(k) # {}
       /\ ~Opposite(InputTriples[k], InputTriples[CandidateBefore(k)])

\* The survivor of the vertex set first met at position k: the candidate a
\* scan position after the end of the list would find.
Survivor(k) ==
    LET same == { m \in k..Len(InputTriples) :
                    Trackable(m) /\ TriangleKey(InputTriples[m]) = TriangleKey(InputTriples[k]) }
        better == { m \in same :
                      /\ Opposite(InputTriples[m], InputTriples[k])
                      /\ Score(InputTriples[m]) > Score(InputTriples[k]) }
    IN  IF better = {} THEN InputTriples[k] ELSE InputTriples[SetMin(better)]

RECURSIVE SurvivorsFrom(_)
SurvivorsFrom(k) ==
    IF k > Len(InputTriples) THEN << >>
    ELSE (IF Trackable(k) /\ EarlierSame(k) = {} THEN Survivor(k) ELSE << >>)
         \o SurvivorsFrom(k + 1)

\* C16: the output is the immediately emitted triangles in their original
\* relative order, followed by the surviving candidates, one per vertex set,
\* in the order in which the vertex sets were first met, also when a candidate
\* was replaced by a later triangle.
C16_OutputOrder ==
    cpc = "returned" =>
        culledIndices =
            FlatSelect(InputTriples, [k \in 1..Len(InputTriples) |-> Immediate(k)])
            \o SurvivorsFrom(1)

\* Two vertex sets; the candidate of the first one is replaced by the last
\* triangle of the list, and still comes out before the second one's.
C16_Witness ==
    /\ cpc = "returned"
    /\ Len(InputTriples) = 3
    /\ NoBadTriangles
    /\ TriangleKey(InputTriples[1]) # TriangleKey(InputTriples[2])
    /\ TriangleKey(InputTriples[1]) = TriangleKey(InputTriples[3])
    /\ Opposite(InputTriples[1], InputTriples[3])
    /\ Score(InputTriples[3]) > Score(InputTriples[1])
    /\ OutputTriples = <<InputTriples[3], InputTriples[2]>>

\* The normal is positive in its first non-zero component, taken in the
\* order Z, Y, X.
FacesForward(tri) ==
    LET n == RawNormal(tri, vertices)
    IN  \/ n[3] > 0
        \/ n[3] = 0 /\ n[2] > 0
        \/ n[3] = 0 /\ n[2] = 0 /\ n[1] > 0

\* C17: of a back-face pair the kept triangle is the one with positive Z when
\* Z is not zero, else the one with positive Y, else the one with positive X.
C17_KeepsPositiveZThenYThenX ==
    (cpc = "returned" /\ OneBackFacePair) =>
        \A pq \in SharingPairs :
            \A k \in 1..Len(OutputTriples) :
                TriangleKey(OutputTriples[k]) = TriangleKey(InputTriples[pq[1]])
                    => FacesForward(OutputTriples[k])

Occurrences(tris, t) == Cardinality({ k \in 1..Len(tris) : tris[k] = t })

SameTriangles(a, b) ==
    /\ Len(a) = Len(b)
    /\ \A k \in 1..Len(a) : Occurrences(a, a[k]) = Occurrences(b, a[k])

\* C20: on input without malformed triples, applying cullBackFaces to its own
\* output (same vertex buffer) returns the same multiset of triangles.
C20_Idempotent ==
    (cpc = "returned" /\ \A k \in 1..Len(InputTriples) : ~IsMalformed(InputTriples[k])) =>
        SameTriangles(Triples(CullBackFaces(culledIndices, vertices)), OutputTriples)

\* The marks of the job that name a tile (all under the job's markPath).
TileMarks(ok) == SelectSeq(helper.marks, LAMBDA m : m.item = "markPath" /\ m.ok = ok)

\* C21: every tile receives at most one outcome mark: the marks never
\* outnumber the tiles the helper was created with, and a tile is marked
\* failed only when its export failed, succeeded only when it succeeded.
C21_OneMarkPerTile ==
    helper.started =>
        /\ Len(helper.marks) <= helper.count
        /\ Len(TileMarks(TRUE)) <= Len(OkAttempts)
        /\ Len(TileMarks(FALSE)) <= Len(FailedAttempts)

-----------------------------------------------------------------------------
(* Properties of the export jobs' ends (checked under SpecWMO)              *)

\* C22: every export job whose helper was started calls finish on it and
\* clears its exporter's cache: once the function has ended, by any path,
\* the helper is finished and the cache was cleared.
C22_EndedJobsFinished ==
    /\ (wmoHelper.started /\ wpc \in {"done", "returned"}) =>
          (wmoHelper.finished /\ wmoCacheClears = 1)
    /\ (helper.started /\ JobEnded) => (helper.finished /\ cacheClears = 1)

-----------------------------------------------------------------------------
(* Properties of the heightmap writer                                       *)

ChunkIndices == 0..(chunksPerSide * chunksPerSide - 1)

\* Every chunk is present with a sample for every position of the walk.
FullyPopulated ==
    \A k \in ChunkIndices : chunks[k].present /\ Len(chunks[k].vertices) = Len(SampleOrder)

\* The supplied samples, as <<chunk index, sample number>>.
Supplied ==
    { kv \in ChunkIndices \X (1..Len(SampleOrder)) :
        chunks[kv[1]].present /\ kv[2] <= Len(chunks[kv[1]].vertices) }

\* The value of a supplied sample: the sample plus the chunk's z offset.
ValueOf(kv) == chunks[kv[1]].vertices[kv[2]] + chunks[kv[1]].position[3]

\* The cell a supplied sample belongs to.
CellOf(kv) ==
    LET globalX == (kv[1] % chunksPerSide) * (vertsPerChunk - 1) + SampleOrder[kv[2]][1]
        globalY == (kv[1] \div chunksPerSide) * (vertsPerChunk - 1) + SampleOrder[kv[2]][2]
    IN  globalY * fullSize + globalX

\* A sample for a cell that an earlier chunk has a sample for.
Shadowed(kv) == \E o \in Supplied : CellOf(o) = CellOf(kv) /\ o[1] < kv[1]

Stored == { kv \in Supplied : ~Shadowed(kv) }

GridComplete ==
    /\ DOMAIN heightData = 0..(fullSize * fullSize - 1)
    /\ \A c \in Cells : heightSet[c]

\* C11 as stated: on a fully populated chunk set no cell is left unset and
\* minHeight / maxHeight are the extrema of all the supplied sample values.
C11_ExtremaOfAllSupplied ==
    (hpc = "populated" /\ FullyPopulated) =>
        /\ GridComplete
        /\ minHeight = SetMin({ ValueOf(kv) : kv \in Supplied })
        /\ maxHeight = SetMax({ ValueOf(kv) : kv \in Supplied })

\* C11, amended: on a fully populated chunk set the grid has side
\* chunksPerSide * (vertsPerChunk - 1) + 1, no cell is left unset, and
\* minHeight / maxHeight are the extrema of the samples that were stored: a
\* sample for a border cell that an earlier chunk already set is ignored.
C11_ExtremaOfStored ==
    (hpc = "populated" /\ FullyPopulated) =>
        /\ GridComplete
        /\ \A kv \in Stored : heightData[CellOf(kv)] = ValueOf(kv)
        /\ minHeight = SetMin({ ValueOf(kv) : kv \in Stored })
        /\ maxHeight = SetMax({ ValueOf(kv) : kv \in Stored })

\* A fully populated tile whose lowest sample is an ignored border sample.
C11_Witness ==
    /\ hpc = "populated"
    /\ FullyPopulated
    /\ \E kv \in Supplied : Shadowed(kv) /\ ValueOf(kv) < minHeight

\* C12: when at least one chunk supplies samples, every cell of the grid is
\* set once setHeightDataFromChunks has returned.
C12_EveryCellSet ==
    (hpc = "populated" /\ Supplied # {}) => \A c \in Cells : heightSet[c]

\* C13: every cell of a written heightmap lies within the imposed range, its
\* serialized value lies in 0..65535, the minimum maps to 0 and the maximum
\* to 65535.
C13_RangeCoversGrid ==
    (hpc \in {"written", "writeThrown"} /\ Supplied # {}) =>
        \A c \in Cells :
            /\ minHeight <= heightData[c] /\ heightData[c] <= maxHeight
            /\ r16Values[c] \in 0..UInt16Max
            /\ heightData[c] = minHeight => r16Values[c] = 0
            /\ heightData[c] = maxHeight => r16Values[c] = UInt16Max

-----------------------------------------------------------------------------
(* Properties of the map session                                            *)

\* Every loadMap call has completed, and there was at least one.
LoadsSettled == loading = << >> /\ loadCalls # << >>

\* No call was started while another one was suspended.
NoOverlap == \A n \in 1..Len(loadCalls) : ~loadCalls[n].overlaps

LastCall == loadCalls[Len(loadCalls)]
LastResult == loadResults[Len(loadResults)].result

\* C14: a loadMap whose descriptor read or parse failed completes with the
\* tile mask null, the world-model flag false, the selection cleared and no
\* world-model placement retained; the flag is true exactly when the retained
\* descriptor has a world-model placement.
C14_FailedLoadFallsBack ==
    (LoadsSettled /\ NoOverlap) =>
        /\ LastResult \in {"readFailed", "parseFailed"} =>
              /\ mapViewerChunkMask = NoMask
              /\ ~mapViewerHasWorldModel
              /\ mapViewerSelection = << >>
              /\ ~selectedWDT.worldModelPlacement
        /\ mapViewerHasWorldModel <=> selectedWDT.worldModelPlacement

\* C18: once overlapping loadMap calls have all completed, the selected map,
\* its directory, the retained descriptor, the tile mask, the world-model flag
\* and the view's selected map belong to the map selected last.
C18_SelectionsAtomic ==
    LoadsSettled =>
        /\ selectedMapID = LastCall.mapID
        /\ selectedMapDir = ToLowerCase(LastCall.mapDir)
        /\ selectedWDT.map \in {NoMap, LastCall.mapID}
        /\ mapViewerChunkMask.map \in {NoMap, LastCall.mapID}
        /\ mapViewerHasWorldModel =>
              selectedWDT.map = LastCall.mapID /\ selectedWDT.worldModelPlacement
        /\ mapViewerSelectedMap = LastCall.mapID
        /\ mapViewerSelectedDir = LastCall.mapDir

\* C19: the tile list of a job is fixed when the job starts: a job that ends
\* without being cancelled has attempted every tile of the list it started
\* with, whatever loadMap did meanwhile.
C19_JobTilesFixed ==
    (pc = "done" /\ ~helper.cancelled) => Len(attempts) = helper.count

-----------------------------------------------------------------------------
(* Properties of collectGameObjects                                         *)

\* The row of GameObjects.db2 an object of a result was made from.
RowOf(obj) == [obj EXCEPT !.FileDataID = 0]

\* The objects of a result are owned by the queried map, satisfy the
\* predicate, and carry the file of their resolved display identifier.
ResultsOwnedFilteredResolved ==
    \A c \in 1..Len(collects) :
        \A obj \in collects[c].result :
            /\ RowOf(obj) \in objTable
            /\ obj.OwnerID = collects[c].mapID
            /\ collects[c].filter = "inTile" /\ obj.inTile
            /\ \E d \in idTable : d.ID = obj.DisplayID /\ d.FileDataID = obj.FileDataID

\* A call made after a completed build returns at once and reads no table.
AnsweredFromCache ==
    \A c \in 1..Len(collects) :
        collects[c].afterBuild => collects[c].at = "returned" /\ collects[c].parses = 0

InitIdleJob ==
    /\ pc = "idle"
    /\ mapViewerSelection = << >>
    /\ mapsIncludeGameObjects = FALSE
    /\ mapsExportHeightmap = FALSE
    /\ gameObjectsDB2 = "null"
    /\ helper = NewExportHelper(0)
    /\ exportPaths = "null"
    /\ i = 0
    /\ tileIndex = 0
    /\ j = 0
    /\ r16Writer = NoWriter
    /\ r16Writers = << >>
    /\ adtExports = << >>
    /\ globalMinHeight = POSITIVE_INFINITY
    /\ globalMaxHeight = NEGATIVE_INFINITY
    /\ toast = "none"
    /\ disk = << >>
    /\ manifest = << >>
    /\ lastExport = << >>
    /\ cacheClears = 0
    /\ attempts = << >>
    /\ writeStarts = << >>

NextCull ==
    \/ CullEnter
    \/ CullScan
    \/ CullReturn

InitCull ==
    InitIdleJob /\ InitCullCall /\ InitHeightIdle /\ InitSession /\ InitObjectsIdle /\ InitWMOIdle

SpecCull == InitCull /\ [][NextCull]_vars

NextHeight ==
    \/ SetHeightDataFromChunks
    \/ ChunkStep
    \/ InterpolateRow
    \/ ImposeGlobalRange
    \/ WriteHeights

InitHeight ==
    InitIdleJob /\ InitCullIdle /\ InitHeightCall /\ InitSession /\ InitObjectsIdle /\ InitWMOIdle

SpecHeight == InitHeight /\ [][NextHeight]_vars

\* The session with a job that exports meshes only: no game objects and no
\* heightmaps, so that pass 2 and the metadata never run.
InitMeshJob ==
    /\ InitJob
    /\ ~mapsIncludeGameObjects
    /\ ~mapsExportHeightmap
    /\ gameObjectsDB2 = "null"

InitMapSession ==
    InitMeshJob /\ InitCullIdle /\ InitHeightIdle /\ InitLoaded /\ InitObjectsIdle /\ InitWMOIdle

NextSession ==
    \/ SelectMap
    \/ LoadMapLoaded
    \/ LoadMapReadFails
    \/ LoadMapParseFails
    \/ ExportSelectedMap
    \/ Pass1Iter
    \/ AdtExportSucceeds
    \/ AdtExportFails
    \/ WriteExportPath
    \/ FinishJob
    \/ Cancel

SpecSession == InitMapSession /\ [][NextSession]_vars

NextObjects ==
    \/ CollectGameObjects
    \/ ObjTableParsed
    \/ ParseRejects
    \/ IdTableParsed

InitCollect ==
    InitIdleJob /\ InitCullIdle /\ InitHeightIdle /\ InitSession /\ InitObjects /\ InitWMOIdle

SpecObjects == InitCollect /\ [][NextObjects]_vars

\* The session with the world-model export: maps are selected and loaded
\* while the export of the current map's world model runs.
InitWMOSession ==
    InitIdleJob /\ InitCullIdle /\ InitHeightIdle /\ InitSession /\ InitObjectsIdle /\ InitWMOIdle

NextWMO ==
    \/ SelectMap
    \/ LoadMapLoaded
    \/ LoadMapReadFails
    \/ LoadMapParseFails
    \/ ExportSelectedMapWMO
    \/ GetFileResolves
    \/ GetFileRejects
    \/ ExportAsOBJResolves
    \/ ExportAsOBJRejects
    \/ CancelWMO

SpecWMO == InitWMOSession /\ [][NextWMO]_vars

=============================================================================
